---- MODULE Spec2Model ----
(***************************************************************************)
(* Model of homework.py: a bot that polls a homework-review API and        *)
(* forwards status changes to a Telegram chat.                             *)
(*                                                                         *)
(* main() is a single sequential process; pc is its position.  The pure    *)
(* functions of the module (check_tokens, get_api_answer, check_response,  *)
(* parse_status, send_message) are operators that return a record holding  *)
(* the exception raised (None when the call returns), the value returned   *)
(* and the log entries written.                                            *)
(*                                                                         *)
(* Message and verdict texts are Russian in the source; the model carries  *)
(* ASCII renderings of them, one distinct string per distinct source text. *)
(***************************************************************************)
EXTENDS Naturals, Sequences, FiniteSets

VARIABLES
    PRACTICUM_TOKEN,    \* module global, line 12: "set" or None
    TELEGRAM_TOKEN,     \* module global, line 13
    TELEGRAM_CHAT_ID,   \* module global, line 14
    pc,                 \* position of main()
    crash,              \* exception that ended the process, None while it runs
    clock,              \* time.time(), in seconds
    timestamp,          \* main: timestamp (line 188)
    hw_status,          \* main: hw_status (line 190)
    errors,             \* main: errors (line 191), the report-once flag
    response,           \* main: response (line 195)
    homework,           \* main: homework (line 196)
    exc,                \* exception in flight / bound to `error` (line 206)
    http,               \* the HTTP exchange of the latest get_api_answer call
    parsed,             \* whether that call ran response.json()
    sent,               \* messages handed to bot.send_message in this cycle
    log,                \* log entries written in this cycle
    gets,               \* number of GET requests issued
    sleeps,             \* number of time.sleep(RETRY_PERIOD) calls
    from_dates,         \* every from_date value sent to the API
    failed_cycles,      \* cycles that ended in the except block
    failure_notices,    \* failure notices handed to send_message
    hw_before,          \* hw_status at the start of the current cycle
    prev_observed,      \* status of the record the previous cycle returned
    undelivered         \* the latest status-change notice failed to deliver

vars == <<PRACTICUM_TOKEN, TELEGRAM_TOKEN, TELEGRAM_CHAT_ID, pc, crash, clock,
          timestamp, hw_status, errors, response, homework, exc, http, parsed,
          sent, log, gets, sleeps, from_dates, failed_cycles, failure_notices,
          hw_before, prev_observed, undelivered>>

----------------------------------------------------------------------------
(* Bounds *)

\* Poll cycles a run may start.
MaxCycles == 3
\* Longest homeworks list the API returns in a poll-once run.
MaxLen == 2
\* Longest homeworks list the API returns inside the polling loop.
MaxLoopLen == 1

----------------------------------------------------------------------------
(* Python values *)

\* Python None.
None == "<None>"
\* A key that a mapping does not hold.
Missing == "<missing>"
\* A JSON list or object where a string is expected: not hashable.
Unhashable == "<unhashable>"
\* No homework record was returned.
NoRecord == "<no record>"

RETRY_PERIOD == 600

HOMEWORK_VERDICTS ==
    [approved  |-> "Work checked: the reviewer liked everything. Hooray!",
     reviewing |-> "Work taken for review by the reviewer.",
     rejected  |-> "Work checked: the reviewer has remarks."]

\* The keys of HOMEWORK_VERDICTS.
VerdictKeys == DOMAIN HOMEWORK_VERDICTS

\* Values the API may put under "status" (besides leaving the key out).
StatusValues == VerdictKeys \cup {"pending", None, Unhashable}
NameValues == {"proj1", Missing}

\* Elements of the homeworks list: JSON objects, and a JSON string.
DictItems == [kind : {"dict"}, status : StatusValues \cup {Missing},
              homework_name : NameValues]
StrItem == [kind |-> "str", status |-> Missing, homework_name |-> Missing]
Items == DictItems \cup {StrItem}
NoHomework == [kind |-> "none", status |-> Missing, homework_name |-> Missing]

ListsUpTo(n) == UNION {[1..k -> Items] : k \in 0..n}

\* The value under the key "homeworks": absent, null, a list, or another type.
HwAbsent == [kind |-> "missing", items |-> <<>>]
HomeworksValues(n) ==
    {[kind |-> k, items |-> <<>>] : k \in {"missing", "null", "str", "dict"}}
    \cup {[kind |-> "list", items |-> l] : l \in ListsUpTo(n)}

\* Parsed JSON bodies: a mapping, or a value of another type.
Bodies(n) ==
    {[kind |-> "dict", homeworks |-> h] : h \in HomeworksValues(n)}
    \cup {[kind |-> k, homeworks |-> HwAbsent] : k \in {"list", "str"}}
\* A body that is not JSON.
Malformed == [kind |-> "malformed", homeworks |-> HwAbsent]
NoResponse == [kind |-> "none", homeworks |-> HwAbsent]
SampleBody ==
    [kind |-> "dict",
     homeworks |-> [kind |-> "list",
                    items |-> <<[kind |-> "dict", status |-> "approved",
                                 homework_name |-> "proj1"]>>]]

\* Outcomes of requests.get: a transport failure, or a response with a
\* status code and a body.  What a response that is not 200 carries is
\* never read (line 112), so two bodies stand for all of them.
StatusCodes == {200, 404, 503}
NoExchange == [kind |-> "none", status_code |-> 0, body |-> NoResponse]
Exchanges(n) ==
    {[kind |-> "network_error", status_code |-> 0, body |-> NoResponse]}
    \cup {[kind |-> "response", status_code |-> 200, body |-> b] :
            b \in Bodies(n) \cup {Malformed}}
    \cup {[kind |-> "response", status_code |-> c, body |-> b] :
            c \in StatusCodes \ {200}, b \in {Malformed, SampleBody}}

\* What response.json() raises on a body that is not JSON depends on the
\* installed requests: from 2.27 on requests.exceptions.JSONDecodeError, a
\* RequestException and a json.JSONDecodeError at once; before that
\* json.JSONDecodeError, or simplejson's own error when simplejson is there.
Builds == {"requests>=2.27", "requests<2.27", "requests<2.27+simplejson"}

\* Outcomes of bot.send_message.
Deliveries == {"ok", "TelegramError"}

\* Everything `except Exception` catches; SystemExit is not among them.
Exceptions == {"UrlApiError", "RequestExceptionError", "JSONDecodeError",
               "TypeError", "EmptyDictionaryOrListError", "IndexError",
               "KeyError", "AttributeError", "NotDocumentStatusError",
               "TelegramError"}

Entry(level, at) == [level |-> level, at |-> at]
Message(kind, detail, verdict) ==
    [kind |-> kind, detail |-> detail, verdict |-> verdict]
Attempt(message, delivery) == [message |-> message, delivery |-> delivery]

----------------------------------------------------------------------------
(* The functions of the module *)

Returns(value, entries) == [exc |-> None, value |-> value, log |-> entries]
Raises(e, entries) == [exc |-> e, value |-> None, log |-> entries]

\* check_tokens(), lines 70-88: an if/elif chain over the three globals;
\* the first missing one is logged, token_error is returned.
check_tokens_ignores_chat_id ==
    IF PRACTICUM_TOKEN = None
    THEN Returns(TRUE, <<Entry("critical", "PRACTICUM_TOKEN")>>)
    ELSE IF TELEGRAM_TOKEN = None
    THEN Returns(TRUE, <<Entry("critical", "TELEGRAM_TOKEN")>>)
    ELSE Returns(FALSE, <<>>)

check_tokens ==
    IF PRACTICUM_TOKEN = None
    THEN Returns(TRUE, <<Entry("critical", "PRACTICUM_TOKEN")>>)
    ELSE IF TELEGRAM_TOKEN = None
    THEN Returns(TRUE, <<Entry("critical", "TELEGRAM_TOKEN")>>)
    ELSE IF TELEGRAM_CHAT_ID = None
    THEN Returns(TRUE, <<Entry("critical", "TELEGRAM_CHAT_ID")>>)
    ELSE Returns(FALSE, <<>>)

\* send_message(bot, message), lines 91-100, when bot.send_message ends as
\* `delivery`: telegram.TelegramError is caught and logged, nothing is
\* returned.  value is the attempt handed to the bot.
send_message(message, delivery) ==
    IF delivery = "ok"
    THEN Returns(Attempt(message, delivery), <<Entry("debug", "send_message")>>)
    ELSE Returns(Attempt(message, delivery), <<Entry("error", "send_message")>>)

\* bot.send_message called directly (lines 184, 189): nothing catches.
bot_send_message(message, delivery) ==
    IF delivery = "ok"
    THEN Returns(Attempt(message, delivery), <<>>)
    ELSE [exc |-> delivery, value |-> Attempt(message, delivery), log |-> <<>>]

\* response.json(), line 118, under each build.
ResponseJson(body, build) ==
    IF body # Malformed THEN Returns(body, <<>>)
    ELSE IF build = "requests>=2.27"
    THEN Raises("requests.JSONDecodeError", <<>>)
    ELSE IF build = "requests<2.27"
    THEN Raises("json.JSONDecodeError", <<>>)
    ELSE Raises("simplejson.JSONDecodeError", <<>>)

\* get_api_answer(timestamp), lines 103-128, when requests.get ends as `ex`.
\* The result also names the from_date sent and whether the body was parsed.
\*   - a status code other than 200 raises UrlApiError, which neither except
\*     clause catches;
\*   - requests.exceptions.RequestException (the first clause) catches a
\*     transport failure and requests' own JSONDecodeError;
\*   - json.JSONDecodeError (the second clause) logs and then evaluates
\*     json.JSONDecodeError(text_error): the constructor takes msg, doc and
\*     pos, so the raise statement fails with TypeError;
\*   - simplejson's error matches neither clause and propagates as it is.
get_api_answer(ts, ex, build) ==
    LET api(r, didParse) == [exc |-> r.exc, value |-> r.value, log |-> r.log,
                             from_date |-> ts, parsed |-> didParse]
    IN  IF ex.kind = "network_error"
        THEN api(Raises("RequestExceptionError",
                        <<Entry("error", "get_api_answer")>>), FALSE)
        ELSE IF ex.status_code # 200
        THEN api(Raises("UrlApiError",
                        <<Entry("error", "get_api_answer")>>), FALSE)
        ELSE LET j == ResponseJson(ex.body, build)
             IN  IF j.exc = None
                 THEN api(Returns(j.value, <<>>), TRUE)
                 ELSE IF j.exc = "requests.JSONDecodeError"
                 THEN api(Raises("RequestExceptionError",
                                 <<Entry("error", "get_api_answer")>>), TRUE)
                 ELSE IF j.exc = "json.JSONDecodeError"
                 THEN api(Raises("TypeError",
                                 <<Entry("error", "get_api_answer")>>), TRUE)
                 ELSE api(Raises("JSONDecodeError", <<>>), TRUE)

\* check_response(response), lines 131-152.  Lists are indexed from 1 here,
\* from 0 in the source.
check_response_last(resp) ==
    IF resp.kind # "dict"
    THEN [exc |-> "TypeError", value |-> NoHomework,
          log |-> <<Entry("error", "check_response")>>]
    ELSE IF resp.homeworks.kind \in {"missing", "null"}
    THEN [exc |-> "EmptyDictionaryOrListError", value |-> NoHomework,
          log |-> <<Entry("error", "check_response")>>]
    ELSE IF resp.homeworks.kind # "list"
    THEN [exc |-> "TypeError", value |-> NoHomework,
          log |-> <<Entry("error", "check_response")>>]
    ELSE IF Len(resp.homeworks.items) = 0
    THEN [exc |-> "IndexError", value |-> NoHomework, log |-> <<>>]
    ELSE [exc |-> None,
          value |-> resp.homeworks.items[Len(resp.homeworks.items)],
          log |-> <<>>]

check_response(resp) ==
    IF resp.kind # "dict"
    THEN [exc |-> "TypeError", value |-> NoHomework,
          log |-> <<Entry("error", "check_response")>>]
    ELSE IF resp.homeworks.kind \in {"missing", "null"}
    THEN [exc |-> "EmptyDictionaryOrListError", value |-> NoHomework,
          log |-> <<Entry("error", "check_response")>>]
    ELSE IF resp.homeworks.kind # "list"
    THEN [exc |-> "TypeError", value |-> NoHomework,
          log |-> <<Entry("error", "check_response")>>]
    ELSE IF Len(resp.homeworks.items) = 0
    THEN [exc |-> "IndexError", value |-> NoHomework, log |-> <<>>]
    ELSE [exc |-> None, value |-> resp.homeworks.items[1], log |-> <<>>]

\* dict.get(key): None when the key is missing.
Get(v) == IF v = Missing THEN None ELSE v
\* str(x) inside an f-string: None is written as the word None.
Str(v) == IF v = None THEN "None" ELSE v

\* parse_status(homework), lines 155-175.
\*   - homework.get on a str raises AttributeError;
\*   - `status not in HOMEWORK_VERDICTS` hashes status: TypeError for a list;
\*   - a missing homework_name is logged (line 172) and formatted as "None".
StatusMessage(name, verdict) == Message("status", Str(name), verdict)

parse_status_one_verdict(h) ==
    IF h.kind # "dict" THEN Raises("AttributeError", <<>>)
    ELSE IF Get(h.status) = Unhashable THEN Raises("TypeError", <<>>)
    ELSE IF Get(h.status) \notin VerdictKeys
    THEN Raises("NotDocumentStatusError", <<Entry("error", "parse_status")>>)
    ELSE Returns(StatusMessage(Get(h.homework_name),
                               HOMEWORK_VERDICTS["reviewing"]),
                 IF Get(h.homework_name) = None
                 THEN <<Entry("error", "parse_status")>> ELSE <<>>)

parse_status(h) ==
    IF h.kind # "dict" THEN Raises("AttributeError", <<>>)
    ELSE IF Get(h.status) = Unhashable THEN Raises("TypeError", <<>>)
    ELSE IF Get(h.status) \notin VerdictKeys
    THEN Raises("NotDocumentStatusError", <<Entry("error", "parse_status")>>)
    ELSE Returns(StatusMessage(Get(h.homework_name),
                               HOMEWORK_VERDICTS[Get(h.status)]),
                 IF Get(h.homework_name) = None
                 THEN <<Entry("error", "parse_status")>> ELSE <<>>)

\* bool(homework), line 197: an empty dict is false, a non-empty str true.
Truthy(h) ==
    \/ h.kind = "str"
    \/ h.kind = "dict" /\ (h.status # Missing \/ h.homework_name # Missing)

\* homework['status'], lines 197 and 200: KeyError when the key is missing,
\* TypeError when homework is a str.
Subscript(h) ==
    IF h.kind # "dict" THEN Raises("TypeError", <<>>)
    ELSE IF h.status = Missing THEN Raises("KeyError", <<>>)
    ELSE Returns(h.status, <<>>)

----------------------------------------------------------------------------
(* main(), lines 178-213 *)

StartTimes == {1700000000, 1700000001}

\* telegram.Bot(token=...), line 180.  The library decides what a missing
\* token does; the versions known reject it, none is obliged to.
OutcomesWithoutToken == {"ok", "InvalidToken"}
OutcomesWithToken == {"ok"}
BotOutcomes(token) ==
    IF token = None THEN OutcomesWithoutToken ELSE OutcomesWithToken

\* `except Exception`, line 206.
Caught_only_domain_errors(e) ==
    e \in {"UrlApiError", "RequestExceptionError",
           "EmptyDictionaryOrListError", "NotDocumentStatusError"}

Caught(e) == e \in Exceptions

\* `if errors:`, line 208.
ShouldReport_always == TRUE

ShouldReport == errors

\* `homework and hw_status != homework['status']`, line 197, once the
\* subscript has given `status`.
StatusChanged_always(h, status) == Truthy(h)

StatusChanged(h, status) == Truthy(h) /\ hw_status # status

\* `hw_status = homework['status']`, line 200, after send_message ended as
\* `delivery`.
StatusAfterNotice_if_delivered(status, delivery) ==
    IF delivery = "ok" THEN status ELSE hw_status

StatusAfterNotice(status, delivery) == status

\* The status of the record a cycle returned, NoRecord if it returned none
\* or one without a status.
Observed(h) ==
    IF h.kind = "dict" /\ h.status # Missing THEN h.status ELSE NoRecord

config == <<PRACTICUM_TOKEN, TELEGRAM_TOKEN, TELEGRAM_CHAT_ID>>
counters == <<gets, sleeps, from_dates, failed_cycles, failure_notices>>
cycle_ghosts == <<hw_before, prev_observed, undelivered>>
call_state == <<response, homework, exc, http, parsed>>

Init ==
    /\ PRACTICUM_TOKEN \in {"set", None}
    /\ TELEGRAM_TOKEN \in {"set", None}
    /\ TELEGRAM_CHAT_ID \in {"set", None}
    /\ pc = "new_bot"
    /\ crash = None
    /\ clock \in StartTimes
    /\ timestamp = 0            \* not assigned yet
    /\ hw_status = None         \* not assigned yet
    /\ errors = FALSE           \* not assigned yet
    /\ response = NoResponse
    /\ homework = NoHomework
    /\ exc = None
    /\ http = NoExchange
    /\ parsed = FALSE
    /\ sent = <<>>
    /\ log = <<>>
    /\ gets = 0
    /\ sleeps = 0
    /\ from_dates = {}
    /\ failed_cycles = 0
    /\ failure_notices = 0
    /\ hw_before = None
    /\ prev_observed = NoRecord
    /\ undelivered = FALSE

\* Line 180.
NewBot ==
    /\ pc = "new_bot"
    /\ \E o \in BotOutcomes(TELEGRAM_TOKEN) :
         IF o = "ok"
         THEN pc' = "check_tokens" /\ crash' = crash
         ELSE pc' = "terminated" /\ crash' = o
    /\ UNCHANGED <<config, clock, timestamp, hw_status, errors, call_state,
                   sent, log, counters, cycle_ghosts>>

\* Lines 181-182.
CheckTokens ==
    /\ pc = "check_tokens"
    /\ LET r == check_tokens
       IN  /\ log' = log \o r.log
           /\ pc' = IF r.value = TRUE THEN "fatal_notice" ELSE "capture_time"
    /\ UNCHANGED <<config, crash, clock, timestamp, hw_status, errors,
                   call_state, sent, counters, cycle_ghosts>>

\* Lines 183-185: the notice goes straight to bot.send_message.
FatalNotice ==
    /\ pc = "fatal_notice"
    /\ \E d \in Deliveries :
         LET r == bot_send_message(Message("fatal", "", ""), d)
         IN  /\ sent' = Append(sent, r.value)
             /\ IF r.exc = None
                THEN /\ log' = log \o <<Entry("debug", "main")>>
                     /\ pc' = "exit"
                     /\ crash' = crash
                ELSE /\ log' = log
                     /\ pc' = "terminated"
                     /\ crash' = r.exc
    /\ UNCHANGED <<config, clock, timestamp, hw_status, errors, call_state,
                   counters, cycle_ghosts>>

\* Line 186: exit() raises SystemExit.
Exit ==
    /\ pc = "exit"
    /\ pc' = "terminated"
    /\ crash' = "SystemExit"
    /\ UNCHANGED <<config, clock, timestamp, hw_status, errors, call_state,
                   sent, log, counters, cycle_ghosts>>

\* Line 188.
CaptureTime ==
    /\ pc = "capture_time"
    /\ timestamp' = clock
    /\ pc' = "start_notice"
    /\ UNCHANGED <<config, crash, clock, hw_status, errors, call_state, sent,
                   log, counters, cycle_ghosts>>

\* Line 189: again straight to bot.send_message.
StartNotice ==
    /\ pc = "start_notice"
    /\ \E d \in Deliveries :
         LET r == bot_send_message(Message("started", "", ""), d)
         IN  /\ sent' = Append(sent, r.value)
             /\ IF r.exc = None
                THEN pc' = "init_loop" /\ crash' = crash
                ELSE pc' = "terminated" /\ crash' = r.exc
    /\ UNCHANGED <<config, clock, timestamp, hw_status, errors, call_state,
                   log, counters, cycle_ghosts>>

\* Lines 190-191.
InitLoop ==
    /\ pc = "init_loop"
    /\ hw_status' = "reviewing"
    /\ errors' = TRUE
    /\ pc' = "get_api_answer"
    /\ UNCHANGED <<config, crash, clock, timestamp, call_state, sent, log,
                   counters, cycle_ghosts>>

\* Line 195, the API answering from `exchanges`.  A new cycle starts here:
\* sent and log restart, and the record of the cycle before is remembered.
GetApiAnswerFrom(exchanges) ==
    /\ pc = "get_api_answer"
    /\ gets < MaxCycles
    /\ \E ex \in exchanges, build \in Builds :
         LET r == get_api_answer(timestamp, ex, build)
         IN  /\ http' = ex
             /\ parsed' = r.parsed
             /\ from_dates' = from_dates \cup {r.from_date}
             /\ exc' = r.exc
             /\ response' = IF r.exc = None THEN r.value ELSE NoResponse
             /\ log' = r.log
             /\ pc' = IF r.exc = None THEN "check_response" ELSE "except"
    /\ gets' = gets + 1
    /\ sent' = <<>>
    /\ homework' = NoHomework
    /\ hw_before' = hw_status
    /\ prev_observed' = Observed(homework)
    /\ UNCHANGED <<config, crash, clock, timestamp, hw_status, errors, sleeps,
                   failed_cycles, failure_notices, undelivered>>

\* Inside the polling loop the API returns lists of up to MaxLoopLen records:
\* the loop reads the first record only (line 152).
LoopExchanges == Exchanges(MaxLoopLen)

GetApiAnswer == GetApiAnswerFrom(LoopExchanges)

\* Line 196.
CheckResponse ==
    /\ pc = "check_response"
    /\ LET r == check_response(response)
       IN  /\ homework' = r.value
           /\ exc' = r.exc
           /\ log' = log \o r.log
           /\ pc' = IF r.exc = None THEN "compare" ELSE "except"
    /\ http' = NoExchange
    /\ parsed' = FALSE
    /\ UNCHANGED <<config, crash, clock, timestamp, hw_status, errors,
                   response, sent, counters, cycle_ghosts>>

\* Lines 197-203.  response is not read again before line 195 assigns it.
Compare ==
    /\ pc = "compare"
    /\ response' = NoResponse
    /\ LET s == Subscript(homework)
           m == parse_status(homework)
           raise(e, entries) ==
               /\ exc' = e
               /\ log' = log \o entries
               /\ pc' = "except"
               /\ UNCHANGED <<sent, hw_status, undelivered>>
       IN  IF ~Truthy(homework) \/ (s.exc = None /\ ~StatusChanged(homework, s.value))
           THEN /\ log' = log \o <<Entry("info", "main")>>
                /\ pc' = "sleep"
                /\ UNCHANGED <<exc, sent, hw_status, undelivered>>
           ELSE IF s.exc # None THEN raise(s.exc, <<>>)
           ELSE IF m.exc # None THEN raise(m.exc, m.log)
           ELSE \E d \in Deliveries :
                  LET r == send_message(m.value, d)
                  IN  /\ sent' = Append(sent, r.value)
                      /\ IF r.exc # None
                         THEN /\ exc' = r.exc
                              /\ log' = log \o m.log \o r.log
                              /\ pc' = "except"
                              /\ UNCHANGED <<hw_status, undelivered>>
                         ELSE /\ hw_status' = StatusAfterNotice(s.value, d)
                              /\ undelivered' = (d # "ok")
                              /\ log' = log \o m.log \o r.log
                                            \o <<Entry("info", "main")>>
                              /\ pc' = "sleep"
                              /\ exc' = exc
    /\ UNCHANGED <<config, crash, clock, timestamp, errors, homework, http,
                   parsed, counters, hw_before, prev_observed>>

\* Line 204.
SleepAfterSuccess_advancing ==
    /\ pc = "sleep"
    /\ clock' = clock + RETRY_PERIOD
    /\ timestamp' = clock + RETRY_PERIOD
    /\ sleeps' = sleeps + 1
    /\ pc' = "get_api_answer"
    /\ UNCHANGED <<config, crash, hw_status, errors, call_state, sent,
                   log, gets, from_dates, failed_cycles, failure_notices,
                   cycle_ghosts>>

SleepAfterSuccess ==
    /\ pc = "sleep"
    /\ clock' = clock + RETRY_PERIOD
    /\ sleeps' = sleeps + 1
    /\ pc' = "get_api_answer"
    /\ UNCHANGED <<config, crash, timestamp, hw_status, errors, call_state,
                   sent, log, gets, from_dates, failed_cycles, failure_notices,
                   cycle_ghosts>>

\* Lines 206-212.  An exception that `except Exception` does not catch, or
\* one raised inside the handler, ends the process.
HandleError ==
    /\ pc = "except"
    /\ response' = NoResponse
    /\ http' = NoExchange
    /\ parsed' = FALSE
    /\ IF ~Caught(exc)
       THEN /\ crash' = exc
            /\ pc' = "terminated"
            /\ UNCHANGED <<errors, sent, log, failed_cycles, failure_notices>>
       ELSE IF ShouldReport
       THEN \E d \in Deliveries :
              LET r == send_message(Message("failure", exc, ""), d)
              IN  /\ errors' = FALSE
                  /\ sent' = Append(sent, r.value)
                  /\ failure_notices' = failure_notices + 1
                  /\ IF r.exc # None
                     THEN /\ crash' = r.exc
                          /\ pc' = "terminated"
                          /\ log' = log \o r.log
                          /\ failed_cycles' = failed_cycles
                     ELSE /\ crash' = crash
                          /\ pc' = "sleep_except"
                          /\ log' = log \o r.log
                                        \o <<Entry("debug", "main"),
                                             Entry("critical", "main")>>
                          /\ failed_cycles' = failed_cycles + 1
       ELSE /\ log' = log \o <<Entry("critical", "main")>>
            /\ failed_cycles' = failed_cycles + 1
            /\ pc' = "sleep_except"
            /\ UNCHANGED <<crash, errors, sent, failure_notices>>
    /\ UNCHANGED <<config, clock, timestamp, hw_status, homework, exc, gets,
                   sleeps, from_dates, cycle_ghosts>>

\* Line 213.
SleepAfterFailure ==
    /\ pc = "sleep_except"
    /\ clock' = clock + RETRY_PERIOD
    /\ sleeps' = sleeps + 1
    /\ pc' = "get_api_answer"
    /\ UNCHANGED <<config, crash, timestamp, hw_status, errors, call_state,
                   sent, log, gets, from_dates, failed_cycles, failure_notices,
                   cycle_ghosts>>

Next ==
    \/ NewBot
    \/ CheckTokens
    \/ FatalNotice
    \/ Exit
    \/ CaptureTime
    \/ StartNotice
    \/ InitLoop
    \/ GetApiAnswer
    \/ CheckResponse
    \/ Compare
    \/ SleepAfterSuccess
    \/ HandleError
    \/ SleepAfterFailure

Spec == Init /\ [][Next]_vars

----------------------------------------------------------------------------
(* One fetch and validation, over every answer up to MaxLen records *)

\* The state main() is in when it first reaches line 195.
PollOnceInit ==
    /\ PRACTICUM_TOKEN = "set"
    /\ TELEGRAM_TOKEN = "set"
    /\ TELEGRAM_CHAT_ID = "set"
    /\ pc = "get_api_answer"
    /\ crash = None
    /\ clock \in StartTimes
    /\ timestamp = clock
    /\ hw_status = "reviewing"
    /\ errors = TRUE
    /\ response = NoResponse
    /\ homework = NoHomework
    /\ exc = None
    /\ http = NoExchange
    /\ parsed = FALSE
    /\ sent = <<Attempt(Message("started", "", ""), "ok")>>
    /\ log = <<>>
    /\ gets = 0
    /\ sleeps = 0
    /\ from_dates = {}
    /\ failed_cycles = 0
    /\ failure_notices = 0
    /\ hw_before = None
    /\ prev_observed = NoRecord
    /\ undelivered = FALSE

AllExchanges == Exchanges(MaxLen)

GetAnyApiAnswer == GetApiAnswerFrom(AllExchanges)

PollOnceNext ==
    \/ GetAnyApiAnswer
    \/ CheckResponse

PollOnceSpec == PollOnceInit /\ [][PollOnceNext]_vars

----------------------------------------------------------------------------
(* Properties *)

LoopPcs == {"get_api_answer", "check_response", "compare", "sleep", "except",
            "sleep_except"}
SleepPcs == {"sleep", "sleep_except"}
TokenMissing ==
    PRACTICUM_TOKEN = None \/ TELEGRAM_TOKEN = None \/ TELEGRAM_CHAT_ID = None
Logged(entry) == \E i \in 1..Len(log) : log[i] = entry
FailureNotice(e) == Message("failure", e, "")

\* C1: when any of the three configuration values is absent, check_tokens
\* returns true, main() never calls get_api_answer and never enters the
\* polling cycle, and nothing goes out but one attempt to send the startup
\* failure notice; a run that gets past that attempt ends in exit().
C1_MissingTokenStopsBeforePolling ==
    TokenMissing =>
        /\ check_tokens.value = TRUE
        /\ pc \in {"new_bot", "check_tokens", "fatal_notice", "exit",
                   "terminated"}
        /\ gets = 0
        /\ from_dates = {}
        /\ sleeps = 0
        /\ Len(sent) <= 1
        /\ \A i \in 1..Len(sent) : sent[i].message = Message("fatal", "", "")
        /\ pc = "exit" => Len(sent) = 1
        /\ pc = "terminated" =>
              /\ crash \in {"InvalidToken", "TelegramError", "SystemExit"}
              /\ crash # "InvalidToken" => Len(sent) = 1

\* C1 witness: only the chat id is missing; the notice was attempted once and
\* the process ended in exit() without a single GET.
C1_Witness ==
    /\ PRACTICUM_TOKEN = "set"
    /\ TELEGRAM_TOKEN = "set"
    /\ TELEGRAM_CHAT_ID = None
    /\ pc = "terminated"
    /\ crash = "SystemExit"
    /\ Len(sent) = 1
    /\ gets = 0

\* C2: the first failed cycle hands exactly one failure notice to the
\* notifier, no later failed cycle hands over any (so at most one per
\* process), and every failed cycle writes one critical log entry.
C2_OneFailureNoticePerProcess ==
    /\ failure_notices <= 1
    /\ failed_cycles >= 1 => failure_notices = 1
    /\ pc = "sleep_except" =>
          /\ Len(SelectSeq(log, LAMBDA e : e.level = "critical")) = 1
          /\ failed_cycles = 1 =>
                /\ Len(sent) = 1
                /\ sent[1].message = FailureNotice(exc)
          /\ failed_cycles > 1 => sent = <<>>

\* C2 witness: the third cycle failed, the second one succeeded (it returned
\* an approved record), the first one failed: the third sent nothing.
C2_Witness ==
    /\ pc = "sleep_except"
    /\ gets = 3
    /\ failed_cycles = 2
    /\ prev_observed = "approved"
    /\ sent = <<>>
    /\ failure_notices = 1

\* C3: when two consecutive cycles return a record with the same status, the
\* second cycle sends no message and leaves last_known_status (hw_status)
\* as the first one left it.
C3_SameStatusTwiceIsIdempotent ==
    (/\ pc \in SleepPcs
     /\ Observed(homework) # NoRecord
     /\ Observed(homework) = prev_observed)
    => /\ sent = <<>>
       /\ hw_status = hw_before

\* C3 witness: an unknown status twice in a row from the start, the
\* report-once flag still set when the first of the two cycles began.
C3_Witness ==
    /\ pc = "sleep_except"
    /\ gets = 2
    /\ failed_cycles = 2
    /\ Observed(homework) = "pending"
    /\ prev_observed = "pending"
    /\ sent = <<>>

\* C4: once the loop has started the process never ends: every exception of
\* a cycle reaches the except block and is caught, each cycle, failed or
\* not, sleeps RETRY_PERIOD exactly once, and the next fetch follows.
C4_LoopNeverTerminates ==
    /\ gets >= 1 => pc \in LoopPcs /\ crash = None
    /\ pc \in LoopPcs =>
          /\ crash = None
          /\ clock = timestamp + sleeps * RETRY_PERIOD
          /\ sleeps = IF pc = "get_api_answer" THEN gets ELSE gets - 1
    /\ pc = "except" => exc \in Exceptions
    /\ pc = "sleep_except" => exc \in Exceptions
    /\ pc \in {"check_response", "compare", "sleep"} => exc = None

\* C4 witness: the second cycle hit the empty homeworks list, slept once and
\* is back at the fetch.
C4_Witness ==
    /\ pc = "get_api_answer"
    /\ exc = "IndexError"
    /\ gets = 2
    /\ sleeps = 2
    /\ failed_cycles >= 1

\* C5 (as claimed): a failed delivery never ends the process, is always
\* logged at error level, and never makes a cycle a failed one.
C5_DeliveryErrorNeverEscapes ==
    /\ crash # "TelegramError"
    /\ exc # "TelegramError"
    /\ \A i \in 1..Len(sent) :
          sent[i].delivery # "ok" => Logged(Entry("error", "send_message"))

\* check_response has just been applied to `response`.
Validated == pc \in {"compare", "except"} /\ response.kind # "none"

\* The three checks of check_response, in their order.

C6_FailsBeforeTheList ==
    /\ response.kind # "dict" => exc = "TypeError" /\ pc = "except"
    /\ response.kind = "dict" =>
          /\ response.homeworks.kind \in {"missing", "null"} =>
                exc = "EmptyDictionaryOrListError" /\ pc = "except"
          /\ response.homeworks.kind \in {"str", "dict"} =>
                exc = "TypeError" /\ pc = "except"

\* C6 (as claimed): check_response fails with TypeError on a non-mapping,
\* with EmptyDictionaryOrListError when homeworks is missing or null, with
\* TypeError when it is not a list, and otherwise returns the first element.
C6_AlwaysReturnsFirstElement ==
    Validated =>
        /\ C6_FailsBeforeTheList
        /\ (response.kind = "dict" /\ response.homeworks.kind = "list") =>
              /\ exc = None
              /\ pc = "compare"
              /\ Len(response.homeworks.items) >= 1
              /\ homework = response.homeworks.items[1]

\* C6 (amended): the three checks as claimed; a non-empty list gives its
\* first element, an empty list fails with IndexError.
C6_ReturnsFirstElementOrIndexError ==
    Validated =>
        /\ C6_FailsBeforeTheList
        /\ (response.kind = "dict" /\ response.homeworks.kind = "list") =>
              IF Len(response.homeworks.items) >= 1
              THEN /\ exc = None
                   /\ pc = "compare"
                   /\ homework = response.homeworks.items[1]
              ELSE /\ exc = "IndexError"
                   /\ pc = "except"
                   /\ homework = NoHomework

\* C6 witness: a list of two different records, the first one returned.
C6_Witness ==
    /\ pc = "compare"
    /\ response.kind = "dict"
    /\ response.homeworks.kind = "list"
    /\ Len(response.homeworks.items) = 2
    /\ response.homeworks.items[1] # response.homeworks.items[2]
    /\ homework = response.homeworks.items[1]

\* The cycle has been through lines 197-203 with a record whose status
\* differs from last_known_status, so parse_status was called.
Parsed ==
    /\ pc \in {"sleep", "except", "sleep_except"}
    /\ homework.kind = "dict"
    /\ homework.status # Missing
    /\ homework.status # hw_before

\* What the sentence holds for a record: its name (the word None when the
\* name is absent) and the verdict text of its status.
Sentence(h) ==
    Message("status",
            IF h.homework_name = Missing THEN "None" ELSE h.homework_name,
            HOMEWORK_VERDICTS[h.status])

\* A recognised status gives one message, the sentence, and the cycle goes
\* on to sleep.
C7_RecognisedStatus ==
    homework.status \in {"approved", "reviewing", "rejected"} =>
        /\ pc = "sleep"
        /\ Len(sent) = 1
        /\ sent[1].message = Sentence(homework)
        /\ homework.homework_name = Missing =>
              Logged(Entry("error", "parse_status"))

C8_FailuresClassifiedByCause ==
    (pc \in {"check_response", "except"} /\ http.kind # "none") =>
        /\ gets = sleeps + 1
        /\ http.kind = "network_error" => exc = "RequestExceptionError"
        /\ (http.kind = "response" /\ http.status_code # 200) =>
              exc = "UrlApiError" /\ ~parsed
        /\ (http.kind = "response" /\ http.status_code = 200
              /\ http.body = Malformed) =>
              exc = "JSONDecodeError"
        /\ (http.kind = "response" /\ http.status_code = 200
              /\ http.body # Malformed) =>
              exc = None /\ response = http.body
        /\ exc = None =>
              /\ http.kind = "response"
              /\ http.status_code = 200
              /\ http.body # Malformed

\* C9: the from_date of every fetch is the timestamp captured at startup,
\* which no cycle changes while the clock moves on.
C9_FromDateNeverAdvances ==
    /\ from_dates \subseteq {timestamp}
    /\ gets >= 1 => from_dates = {timestamp}
    /\ pc \in LoopPcs =>
          /\ timestamp \in StartTimes
          /\ timestamp + sleeps * RETRY_PERIOD = clock

\* C9 witness: three fetches, a status change and a failure among them, the
\* clock two periods on, one from_date.
C9_Witness ==
    /\ gets = 3
    /\ sleeps = 2
    /\ Cardinality(from_dates) = 1
    /\ hw_status # "reviewing"
    /\ failed_cycles >= 1
    /\ clock = timestamp + 2 * RETRY_PERIOD

\* C10: a cycle that sees a recognised status other than last_known_status
\* records it whether or not the notice was delivered; while that status
\* stays recorded, a later cycle returning it sends nothing, also when the
\* notice had failed to deliver.
C10_StatusRecordedEvenIfUndelivered ==
    /\ (/\ pc = "sleep"
        /\ homework.kind = "dict"
        /\ homework.status \in VerdictKeys
        /\ homework.status # hw_before)
       => /\ hw_status = homework.status
          /\ Len(sent) = 1
          /\ undelivered = (sent[1].delivery # "ok")
    /\ (/\ pc \in SleepPcs
        /\ undelivered
        /\ Observed(homework) = hw_before)
       => /\ sent = <<>>
          /\ hw_status = hw_before

\* C10 witness: the approved notice failed to deliver in an earlier cycle; this
\* cycle returned approved again and sent nothing.
C10_Witness ==
    /\ pc = "sleep"
    /\ gets >= 2
    /\ undelivered
    /\ hw_before = "approved"
    /\ Observed(homework) = "approved"
    /\ prev_observed = "approved"
    /\ sent = <<>>

====
